---- MODULE Spec2Model ----
(***************************************************************************)
(* Model of the readinglist record store: the key-value adapter            *)
(* (readinglist/storage/simpleredis.py) and the relational adapter         *)
(* (readinglist/storage/postgresql/__init__.py), each driven by            *)
(* concurrent callers.                                                     *)
(*                                                                         *)
(* A Redis command issued outside MULTI is one atomic step; a pipeline     *)
(* run with execute() (MULTI ... EXEC) is one atomic step.                 *)
(***************************************************************************)
EXTENDS Integers, Sequences, FiniteSets, TLC

\* ------------------------------------------------------------ bounds
\* utils.msec_time() reads a value of 0..MaxClock.
MaxClock == 1
\* Calls the concurrent callers issue, all together.
MaxCalls == 2
\* Calls a caller alone issues, one after the other.
MaxSeqCalls == 3
\* Calls issued on the relational adapter, one after the other.
MaxPgCalls == 3
\* Calls one caller issues on one of the two adapters, one after the other.
MaxOneCalls == 3
\* Calls of the caller that reads collections too.
MaxAllCalls == 3
\* Calls on the relational adapter, reads of collections among them.
MaxPgQueryCalls == 4
\* Calls two concurrent callers issue when they write only.
MaxLiveCalls == 2
\* Calls two concurrent callers issue when they create and delete.
MaxRaceCalls == 3
\* Reads of a collection of records with a number in them.
MaxNumCalls == 1
\* Calls on the relational adapter, some of them met by a failing backend.
MaxPgFailCalls == 3
\* Calls of two callers, reads of collections among them.
MaxScanCalls == 3

\* ------------------------------------------------------------ universe
\* Concurrent callers: threads, or independent store instances on one backend.
Procs == {"c1", "c2"}
Resources == {"article"}
Users == {"alice", "bob"}
\* A (resource, tenant) pair, as it qualifies every Redis key.
Pairs == Resources \X Users
\* Record ids (id_generator draws fresh ones; update takes the caller's).
Ids == {"a", "b"}
IdRank == [a |-> 1, b |-> 2]
\* JSON null, also what record.get(field) gives for a missing field.
Null == "null"
\* resource.mapping.Options.unique_fields, in declaration order.
UniqueFields == <<"phone", "line">>
PhoneVals == {Null, "p"}
LineVals == {Null, "l"}
\* The record bodies callers pass: content fields, with or without an id field.
Payloads == [id : Ids \cup {Null}, phone : PhoneVals, line : LineVals]
\* The bodies of the concurrent runs: a unique value, the same in a body that
\* carries an id, and a null first unique field beside a second one.
Bodies == {[id |-> Null, phone |-> "p", line |-> Null],
           [id |-> "a", phone |-> "p", line |-> Null],
           [id |-> Null, phone |-> Null, line |-> "l"]}
\* The body of the concurrent runs of writes only.
RaceBodies == {[id |-> Null, phone |-> "p", line |-> Null]}
\* The pair the concurrent runs write.
OnePair == {<<"article", "alice">>}

VARIABLES
    timestamp,   \* Redis key '{res}.{user}.timestamp': <<>> (no key) or <<v>>
    records,     \* Redis keys '{res}.{user}.{id}.records': id -> stored record
    recordIds,   \* Redis set '{res}.{user}.records'
    deleted,     \* Redis keys '{res}.{user}.{id}.deleted': id -> tombstone
    deletedIds,  \* Redis set '{res}.{user}.deleted'
    usedIds,     \* ids already drawn by id_generator or named by a caller
    pc,          \* each caller's position in its current call
    loc,         \* each caller's local variables
    res,         \* what each caller's last completed call returned or raised
    left,        \* calls the callers may still issue
    issued,      \* per pair, the stamps _bump_timestamp installed, in order
    returned,    \* per pair, the modified values writes returned, in order
    pgRecords,   \* PostgreSQL table records: a set of rows
    pgDeleted,   \* PostgreSQL table deleted: a set of rows
    pgRes,       \* what the last call on the relational adapter gave
    pgLeft       \* calls that may still be issued on the relational adapter

store == <<timestamp, records, recordIds, deleted, deletedIds>>
pg == <<pgRecords, pgDeleted, pgRes, pgLeft>>
vars == <<timestamp, records, recordIds, deleted, deletedIds, usedIds,
          pc, loc, res, left, issued, returned, pg>>

\* ------------------------------------------------------------ helpers
Range(s) == {s[i] : i \in 1..Len(s)}

Max(a, b) == IF a >= b THEN a ELSE b

NoLoc == [op |-> "none", pair |-> <<"article", "alice">>, id |-> Null,
          rec |-> [id |-> Null, phone |-> Null, line |-> Null],
          fi |-> 0, ids |-> {}, previous |-> <<>>, dirty |-> FALSE,
          clock |-> 0, seen |-> {}, before |-> <<>>, t0 |-> 0, n0 |-> 0,
          query |-> [filters |-> <<>>, rules |-> <<>>, limit |-> 0,
                     include_deleted |-> FALSE, sorting |-> <<>>],
          rows |-> {}, skipped |-> {}]

NoRes == [op |-> "none", pair |-> <<"article", "alice">>, id |-> Null,
          status |-> "none", rec |-> <<>>, field |-> Null, value |-> <<>>,
          previous |-> <<>>, clock |-> 0, seen |-> {}, before |-> <<>>,
          t0 |-> 0, bumps |-> 0, after |-> <<>>, prior |-> "none",
          query |-> [filters |-> <<>>, rules |-> <<>>, limit |-> 0,
                     include_deleted |-> FALSE, sorting |-> <<>>],
          rows |-> {}, count |-> 0, list |-> <<>>,
          answer |-> FALSE, backend |-> "none", skipped |-> {}]

\* utils.msec_time(): the wall clock may be set back between two readings,
\* and two readings may fall in one millisecond, so that a reading is any
\* value of the range.
Clock == 0..MaxClock

\* collection_timestamp with 0 for a pair never written.
CollectionStampZero(stored, current) ==
    IF stored # <<>> THEN stored[1] ELSE 0

\* What collection_timestamp returns, from the value of the timestamp key
\* (<<>> when the key is missing) and its reading of the clock.
CollectionStamp(stored, current) ==
    IF stored # <<>> THEN stored[1] ELSE current

\* _bump_timestamp without the + 1.
BumpValueNoIncrement(previous, current) ==
    IF previous # <<>> /\ previous[1] >= current
    THEN previous[1]
    ELSE current

\* _bump_timestamp with > for >=.
BumpValueStrict(previous, current) ==
    IF previous # <<>> /\ previous[1] > current
    THEN previous[1] + 1
    ELSE current

\* _bump_timestamp installing again the value it read.
BumpValueRepeat(previous, current) ==
    IF previous # <<>> THEN previous[1] ELSE current

\* _bump_timestamp taking the clock whatever was stored.
BumpValueClockOnly(previous, current) == current

\* The value _bump_timestamp installs, from the value it read under WATCH
\* (<<>> when the key is missing) and its reading of the clock.
BumpValue(previous, current) ==
    IF previous # <<>> /\ previous[1] >= current
    THEN previous[1] + 1
    ELSE current

\* strip_deleted_record: id, timestamp and the deletion mark only.
StripDeleted(record) ==
    [id |-> record.id, last_modified |-> record.last_modified, deleted |-> TRUE]

\* check_unicity's walk over the unique fields: the first field at index
\* >= i whose value in the record is not None, 0 when there is none.
NextField(rec, i) ==
    LET S == {j \in i..Len(UniqueFields) : rec[UniqueFields[j]] # Null}
    IN  IF S = {} THEN 0 ELSE CHOOSE j \in S : \A k \in S : j <= k

\* check_unicity's query for one field: live records holding the value,
\* but for the record whose id the candidate carries.
UnicityMatches(recs, rec, f) ==
    {r \in recs : r[f] = rec[f] /\ (rec.id # Null => r.id # rec.id)}

\* The record a write stores: the body with its id and (later) its stamp.
WithId(rec, id) == [id |-> id, phone |-> rec.phone, line |-> rec.line]

\* set_record_timestamp: the stamp goes into the record.
Stamped(rec, t) ==
    [id |-> rec.id, last_modified |-> t, phone |-> rec.phone, line |-> rec.line]

\* id_generator: an id no record and no caller has used; the ids being
\* interchangeable, the first of them.
FreshId == CHOOSE i \in Ids \ usedIds : \A j \in Ids \ usedIds : IdRank[i] <= IdRank[j]

\* Whether caller p may issue a call. The callers being interchangeable, the
\* first call of a run is c1's.
MayCall(p) == pc[p] = "idle" /\ left > 0 /\ (p = "c1" \/ left < MaxCalls)

\* A keyspace with no key, and the SET and DEL of one key.
NoKeys == [i \in {} |-> Null]

\* A SET that stores nothing.
PutNothing(m, id, v) == m

Put(m, id, v) == [i \in DOMAIN m \cup {id} |-> IF i = id THEN v ELSE m[i]]

Drop(m, id) == [i \in DOMAIN m \ {id} |-> m[i]]

\* ------------------------------------------------------------ initial state
InitStore ==
    /\ timestamp = [pr \in Pairs |-> <<>>]
    /\ records = [pr \in Pairs |-> NoKeys]
    /\ recordIds = [pr \in Pairs |-> {}]
    /\ deleted = [pr \in Pairs |-> NoKeys]
    /\ deletedIds = [pr \in Pairs |-> {}]
    /\ usedIds = {}
    /\ pc = [p \in Procs |-> "idle"]
    /\ loc = [p \in Procs |-> NoLoc]
    /\ res = [p \in Procs |-> NoRes]
    /\ issued = [pr \in Pairs |-> <<>>]
    /\ returned = [pr \in Pairs |-> <<>>]
    /\ pgRecords = {}
    /\ pgDeleted = {}
    /\ pgRes = NoRes

Init == InitStore /\ left = MaxCalls /\ pgLeft = 0

\* ------------------------------------------------------------ calls
\* The clock readings a call of collection_timestamp may take: it reads
\* the clock only when the timestamp key is missing.
Readings(pair) == IF timestamp[pair] = <<>> THEN Clock ELSE {0}

\* What a write records on entry: the modified values already returned for
\* the pair, the timestamp key and the clock as collection_timestamp would
\* read them, the number of stamps issued.
Entered(l, pair, t) ==
    [l EXCEPT !.seen = Range(returned[pair]),
              !.before = timestamp[pair],
              !.t0 = t,
              !.n0 = Len(issued[pair])]

\* Where a write goes once check_unicity has passed field index i - 1:
\* to the query for the next non-null unique field, or on to the stamp.
AfterField(l, i) ==
    LET j == NextField(l.rec, i)
    IN  IF j = 0
        THEN [pc |-> "bump_watch",
              loc |-> [l EXCEPT !.fi = 0, !.ids = {},
                                !.rec = WithId(l.rec, l.id)]]
        ELSE [pc |-> "cu_smembers", loc |-> [l EXCEPT !.fi = j, !.ids = {}]]

\* Redis.create with the stamp taken before check_unicity.
CreateStampFirst(p, pair, body) ==
    /\ MayCall(p)
    /\ usedIds # Ids
    /\ \E t \in Clock :
         LET i == FreshId
             l == Entered([NoLoc EXCEPT !.op = "create", !.pair = pair,
                                       !.id = i, !.rec = body], pair, t)
             n == AfterField(l, 1)
         IN  /\ usedIds' = usedIds \cup {i}
             /\ pc' = [pc EXCEPT ![p] = n.pc]
             /\ loc' = [loc EXCEPT ![p] = n.loc]
             /\ timestamp' = [timestamp EXCEPT
                                ![pair] = <<BumpValue(@, t)>>]
    /\ left' = left - 1
    /\ res' = [res EXCEPT ![p] = NoRes]
    /\ UNCHANGED pg
    /\ UNCHANGED <<records, recordIds, deleted, deletedIds, issued, returned>>

\* Redis.create, entry: check_unicity on the caller's body, then a copy of
\* it under a fresh id.
Create(p, pair, body) ==
    /\ MayCall(p)
    /\ usedIds # Ids
    /\ \E t \in Readings(pair) :
         LET i == FreshId
             l == Entered([NoLoc EXCEPT !.op = "create", !.pair = pair,
                                       !.id = i, !.rec = body], pair, t)
             n == AfterField(l, 1)
         IN  /\ usedIds' = usedIds \cup {i}
             /\ pc' = [pc EXCEPT ![p] = n.pc]
             /\ loc' = [loc EXCEPT ![p] = n.loc]
    /\ left' = left - 1
    /\ res' = [res EXCEPT ![p] = NoRes]
    /\ UNCHANGED pg
    /\ UNCHANGED <<timestamp, records, recordIds, deleted, deletedIds,
                   issued, returned>>

\* Redis.update, entry: the body takes the id of the call, then check_unicity.
Update(p, pair, id, body) ==
    /\ MayCall(p)
    /\ \E t \in Readings(pair) :
         LET l == Entered([NoLoc EXCEPT !.op = "update", !.pair = pair,
                                       !.id = id, !.rec = WithId(body, id)],
                          pair, t)
             n == AfterField(l, 1)
         IN  /\ pc' = [pc EXCEPT ![p] = n.pc]
             /\ loc' = [loc EXCEPT ![p] = n.loc]
    /\ usedIds' = usedIds \cup {id}
    /\ left' = left - 1
    /\ res' = [res EXCEPT ![p] = NoRes]
    /\ UNCHANGED pg
    /\ UNCHANGED <<timestamp, records, recordIds, deleted, deletedIds,
                   issued, returned>>

\* check_unicity -> get_all: SMEMBERS of the pair's id set; with no id there
\* is no MGET and no match.
CuSmembers(p) ==
    /\ pc[p] = "cu_smembers"
    /\ LET l == loc[p]
           n == IF recordIds[l.pair] = {}
                THEN AfterField(l, l.fi + 1)
                ELSE [pc |-> "cu_mget",
                      loc |-> [l EXCEPT !.ids = recordIds[l.pair]]]
       IN  /\ pc' = [pc EXCEPT ![p] = n.pc]
           /\ loc' = [loc EXCEPT ![p] = n.loc]
    /\ UNCHANGED pg
    /\ UNCHANGED <<timestamp, records, recordIds, deleted, deletedIds,
                   usedIds, res, left, issued, returned>>

\* check_unicity -> get_all: MGET of the ids read (a missing value is
\* skipped), the filter, and UnicityError(field, existing[0]) on a match.
CuMget(p) ==
    /\ pc[p] = "cu_mget"
    /\ LET l == loc[p]
           f == UniqueFields[l.fi]
           got == {records[l.pair][i] : i \in l.ids \cap DOMAIN records[l.pair]}
           hit == UnicityMatches(got, l.rec, f)
           n == AfterField(l, l.fi + 1)
       IN  IF hit = {}
           THEN /\ pc' = [pc EXCEPT ![p] = n.pc]
                /\ loc' = [loc EXCEPT ![p] = n.loc]
                /\ UNCHANGED <<res, usedIds>>
           ELSE /\ pc' = [pc EXCEPT ![p] = "idle"]
                /\ loc' = [loc EXCEPT ![p] = NoLoc]
                /\ \E r \in hit :
                     res' = [res EXCEPT ![p] =
                               [NoRes EXCEPT !.op = l.op, !.pair = l.pair,
                                             !.id = l.rec.id,
                                             !.status = "UnicityError",
                                             !.field = f, !.rec = <<r>>,
                                             !.value = <<l.rec[f]>>]]
                \* create calls id_generator only once the check has
                \* passed: the id kept for it on entry is not drawn.
                /\ usedIds' = IF l.op = "create" THEN usedIds \ {l.id}
                                                 ELSE usedIds
    /\ UNCHANGED pg
    /\ UNCHANGED <<timestamp, records, recordIds, deleted, deletedIds,
                   left, issued, returned>>

\* _bump_timestamp retrying on the pipeline of the refused attempt: the
\* conflict met stays on it.
BumpWatchStale(p) ==
    /\ pc[p] = "bump_watch"
    /\ pc' = [pc EXCEPT ![p] = "bump_get"]
    /\ UNCHANGED loc
    /\ UNCHANGED pg
    /\ UNCHANGED <<timestamp, records, recordIds, deleted, deletedIds,
                   usedIds, res, left, issued, returned>>

\* _bump_timestamp: pipe.watch(key), in a fresh pipeline.
BumpWatch(p) ==
    /\ pc[p] = "bump_watch"
    /\ pc' = [pc EXCEPT ![p] = "bump_get"]
    /\ loc' = [loc EXCEPT ![p].dirty = FALSE]
    /\ UNCHANGED pg
    /\ UNCHANGED <<timestamp, records, recordIds, deleted, deletedIds,
                   usedIds, res, left, issued, returned>>

\* _bump_timestamp: previous = pipe.get(key).
BumpGet(p) ==
    /\ pc[p] = "bump_get"
    /\ pc' = [pc EXCEPT ![p] = "bump_exec"]
    /\ loc' = [loc EXCEPT ![p].previous = timestamp[loc[p].pair]]
    /\ UNCHANGED pg
    /\ UNCHANGED <<timestamp, records, recordIds, deleted, deletedIds,
                   usedIds, res, left, issued, returned>>

\* _bump_timestamp without WATCH: no caller's EXEC is ever refused.
WatchingNone(pair) == {}

\* The callers whose WATCH of the pair's timestamp key is open.
Watching(pair) ==
    {q \in Procs : pc[q] \in {"bump_get", "bump_exec"} /\ loc[q].pair = pair}

\* _bump_timestamp: msec_time(), then SET under MULTI/EXEC. EXEC raises
\* WatchError when the watched key was written since WATCH, and the loop
\* starts over; otherwise the value is installed and set_record_timestamp
\* puts it in the record.
BumpExec(p) ==
    /\ pc[p] = "bump_exec"
    /\ LET l == loc[p]
       IN  IF l.dirty
           THEN /\ pc' = [pc EXCEPT ![p] = "bump_watch"]
                /\ loc' = [loc EXCEPT ![p].previous = <<>>]
                /\ UNCHANGED <<timestamp, issued>>
           ELSE \E t \in Clock :
                LET current == BumpValue(l.previous, t)
                IN  /\ timestamp' = [timestamp EXCEPT ![l.pair] = <<current>>]
                    /\ issued' = [issued EXCEPT ![l.pair] = Append(@, current)]
                    /\ pc' = [pc EXCEPT ![p] = IF l.op = "delete"
                                               THEN "tombstone" ELSE "write"]
                    /\ loc' = [q \in Procs |->
                                 IF q = p
                                 THEN [l EXCEPT !.rec = Stamped(l.rec, current),
                                                !.clock = t]
                                 ELSE IF q \in Watching(l.pair)
                                      THEN [loc[q] EXCEPT !.dirty = TRUE]
                                      ELSE loc[q]]
    /\ UNCHANGED pg
    /\ UNCHANGED <<records, recordIds, deleted, deletedIds, usedIds, res,
                   left, returned>>

\* What a completed write reports: the record returned, with what the call
\* met on its way: the value read under WATCH and the clock reading of the
\* stamp, the modified values returned before the call, the timestamp key
\* on entry and as the call ends, the stamps issued in between.
Done(l, rec) ==
    [NoRes EXCEPT !.op = l.op, !.pair = l.pair, !.id = l.id, !.status = "ok",
                  !.rec = <<rec>>, !.previous = l.previous, !.clock = l.clock,
                  !.seen = l.seen, !.before = l.before, !.t0 = l.t0,
                  !.bumps = Len(issued[l.pair]) - l.n0,
                  !.after = timestamp[l.pair]]

\* Redis.create and Redis.update, last step: SET of the record key and SADD
\* of the id to the pair's id set, in one MULTI/EXEC; the record is returned.
Write(p) ==
    /\ pc[p] = "write"
    /\ LET l == loc[p]
       IN  /\ records' = [records EXCEPT ![l.pair] = Put(@, l.id, l.rec)]
           /\ recordIds' = [recordIds EXCEPT ![l.pair] = @ \cup {l.id}]
           /\ res' = [res EXCEPT ![p] = Done(l, l.rec)]
           /\ returned' = [returned EXCEPT
                             ![l.pair] = Append(@, l.rec.last_modified)]
    /\ pc' = [pc EXCEPT ![p] = "idle"]
    /\ loc' = [loc EXCEPT ![p] = NoLoc]
    /\ UNCHANGED pg
    /\ UNCHANGED <<timestamp, deleted, deletedIds, usedIds, left, issued>>

\* Redis.get: GET of the record key. The result notes which call the caller
\* had made just before.
Get(p, pair, id) ==
    /\ MayCall(p)
    /\ left' = left - 1
    /\ res' = [res EXCEPT ![p] =
                 IF id \in DOMAIN records[pair]
                 THEN [NoRes EXCEPT !.op = "get", !.pair = pair, !.id = id,
                                    !.status = "ok",
                                    !.rec = <<records[pair][id]>>,
                                    !.prior = res[p].op]
                 ELSE [NoRes EXCEPT !.op = "get", !.pair = pair, !.id = id,
                                    !.status = "RecordNotFoundError",
                                    !.prior = res[p].op]]
    /\ UNCHANGED pg
    /\ UNCHANGED <<timestamp, records, recordIds, deleted, deletedIds,
                   usedIds, pc, loc, issued, returned>>

\* Redis.delete with a first pipeline of GET alone: the record key stays.
DeleteWithoutDel(p, pair, id) ==
    /\ MayCall(p)
    /\ left' = left - 1
    /\ IF id \in DOMAIN records[pair]
       THEN /\ pc' = [pc EXCEPT ![p] = "bump_watch"]
            /\ \E t \in Readings(pair) :
                 loc' = [loc EXCEPT ![p] =
                          Entered([NoLoc EXCEPT !.op = "delete", !.pair = pair,
                                                !.id = id,
                                                !.rec = records[pair][id]],
                                  pair, t)]
            /\ res' = [res EXCEPT ![p] = NoRes]
       ELSE /\ res' = [res EXCEPT ![p] =
                         [NoRes EXCEPT !.op = "delete", !.pair = pair,
                                       !.id = id,
                                       !.status = "RecordNotFoundError"]]
            /\ UNCHANGED <<pc, loc>>
    /\ UNCHANGED pg
    /\ UNCHANGED <<records, recordIds, timestamp, deleted, deletedIds,
                   usedIds, issued, returned>>

\* Redis.delete, first pipeline: GET and DEL of the record key and SREM of
\* the id, in one MULTI/EXEC; RecordNotFoundError when GET gave nothing.
Delete(p, pair, id) ==
    /\ MayCall(p)
    /\ left' = left - 1
    /\ records' = [records EXCEPT ![pair] = Drop(@, id)]
    /\ recordIds' = [recordIds EXCEPT ![pair] = @ \ {id}]
    /\ IF id \in DOMAIN records[pair]
       THEN /\ pc' = [pc EXCEPT ![p] = "bump_watch"]
            /\ \E t \in Readings(pair) :
                 loc' = [loc EXCEPT ![p] =
                          Entered([NoLoc EXCEPT !.op = "delete", !.pair = pair,
                                                !.id = id,
                                                !.rec = records[pair][id]],
                                  pair, t)]
            /\ res' = [res EXCEPT ![p] = NoRes]
       ELSE /\ res' = [res EXCEPT ![p] =
                         [NoRes EXCEPT !.op = "delete", !.pair = pair,
                                       !.id = id,
                                       !.status = "RecordNotFoundError"]]
            /\ UNCHANGED <<pc, loc>>
    /\ UNCHANGED pg
    /\ UNCHANGED <<timestamp, deleted, deletedIds, usedIds, issued,
                   returned>>

\* Redis.delete, second pipeline: the stamped record is stripped to a
\* tombstone, SET under the deleted key and its id SADDed to the pair's
\* deleted set, in one MULTI/EXEC; the tombstone is returned.
Tombstone(p) ==
    /\ pc[p] = "tombstone"
    /\ LET l == loc[p]
           existing == StripDeleted(l.rec)
       IN  /\ deleted' = [deleted EXCEPT ![l.pair] = Put(@, l.id, existing)]
           /\ deletedIds' = [deletedIds EXCEPT ![l.pair] = @ \cup {l.id}]
           /\ res' = [res EXCEPT ![p] = Done(l, existing)]
           /\ returned' = [returned EXCEPT
                             ![l.pair] = Append(@, existing.last_modified)]
    /\ pc' = [pc EXCEPT ![p] = "idle"]
    /\ loc' = [loc EXCEPT ![p] = NoLoc]
    /\ UNCHANGED pg
    /\ UNCHANGED <<timestamp, records, recordIds, usedIds, left, issued>>

\* Redis.collection_timestamp: GET of the timestamp key; the clock when the
\* key is missing. Nothing is written.
CollectionTimestamp(p, pair) ==
    /\ MayCall(p)
    /\ left' = left - 1
    /\ \E t \in Readings(pair) :
         res' = [res EXCEPT ![p] =
                  [NoRes EXCEPT !.op = "collection_timestamp", !.pair = pair,
                                !.status = "ok",
                                !.previous = timestamp[pair], !.clock = t,
                                !.value = <<CollectionStamp(timestamp[pair], t)>>]]
    /\ UNCHANGED pg
    /\ UNCHANGED <<timestamp, records, recordIds, deleted, deletedIds,
                   usedIds, pc, loc, issued, returned>>

\* ------------------------------------------------------------ relational adapter
\* Each call runs its statements on one connection and commits once; the
\* calls are issued one after the other.
redis == <<timestamp, records, recordIds, deleted, deletedIds, usedIds,
           pc, loc, res, left, issued, returned>>

\* The rows of a table a query qualified by user_id and resource_name sees.
PgOf(table, pair) == {r \in table : r.pair = pair}

\* The rows "WHERE id = %(record_id)s" selects: no user_id, no resource_name.
PgById(table, id) == {r \in table : r.id = id}

\* The record get_all makes of a row of records.
PgRecord(r) ==
    IF "number" \in DOMAIN r
    THEN [id |-> r.id, last_modified |-> r.last_modified,
          phone |-> r.phone, line |-> r.line, number |-> r.number]
    ELSE [id |-> r.id, last_modified |-> r.last_modified,
          phone |-> r.phone, line |-> r.line]

\* schema.sql, resource_timestamp: the greatest last_modified among the
\* rows of the pair in both tables, <<>> when it has no row.
PgLast(pair) ==
    LET S == {r.last_modified : r \in PgOf(pgRecords, pair)}
               \cup {r.last_modified : r \in PgOf(pgDeleted, pair)}
    IN  IF S = {} THEN <<>> ELSE <<CHOOSE m \in S : \A n \in S : n <= m>>

\* schema.sql, the trigger stamping last_modified on rows inserted or updated.
PgStamp(pair, t) == BumpValue(PgLast(pair), t)

\* schema.sql, the id a row of records gets by default: one no row holds.
PgFreshIds == Ids \ ({r.id : r \in pgRecords} \cup {r.id : r \in pgDeleted})

\* check_unicity on the records of the pair: <<>> when every unique field
\* passes, else the first field that collides with the records it meets.
PgUnicity(pair, rec) ==
    LET live == {PgRecord(r) : r \in PgOf(pgRecords, pair)}
        bad == {k \in 1..Len(UniqueFields) :
                  /\ rec[UniqueFields[k]] # Null
                  /\ UnicityMatches(live, rec, UniqueFields[k]) # {}}
    IN  IF bad = {} THEN <<>>
        ELSE LET k == CHOOSE k \in bad : \A j \in bad : k <= j
             IN  <<UniqueFields[k], UnicityMatches(live, rec, UniqueFields[k])>>

PgRaised(op, pair, id, status) ==
    [NoRes EXCEPT !.op = op, !.pair = pair, !.id = id, !.status = status]

PgUnicityError(op, pair, id, rec, u) ==
    \E r \in u[2] :
        pgRes' = [PgRaised(op, pair, id, "UnicityError")
                    EXCEPT !.field = u[1], !.rec = <<r>>,
                           !.value = <<rec[u[1]]>>]

PgReturned(op, pair, id, rec) ==
    [NoRes EXCEPT !.op = op, !.pair = pair, !.id = id, !.status = "ok",
                  !.rec = <<rec>>]

\* PostgreSQL.create: check_unicity, then INSERT INTO records with the id and
\* the last_modified the database gives.
PgCreate(pair, body) ==
    /\ pgLeft > 0 /\ pgLeft' = pgLeft - 1
    /\ PgFreshIds # {}
    /\ LET u == PgUnicity(pair, body)
       IN  IF u # <<>>
           THEN /\ PgUnicityError("create", pair, body.id, body, u)
                /\ UNCHANGED <<pgRecords, pgDeleted>>
           ELSE \E t \in Clock :
                LET i == CHOOSE i \in PgFreshIds :
                            \A j \in PgFreshIds : IdRank[i] <= IdRank[j]
                    row == [id |-> i, pair |-> pair,
                            last_modified |-> PgStamp(pair, t),
                            phone |-> body.phone, line |-> body.line]
                IN  /\ pgRecords' = pgRecords \cup {row}
                    /\ pgRes' = PgReturned("create", pair, i, PgRecord(row))
                    /\ UNCHANGED pgDeleted
    /\ UNCHANGED redis

\* PostgreSQL.get: SELECT ... FROM records WHERE id = %(record_id)s.
PgGet(pair, id) ==
    /\ pgLeft > 0 /\ pgLeft' = pgLeft - 1
    /\ IF PgById(pgRecords, id) = {}
       THEN pgRes' = [PgRaised("get", pair, id, "RecordNotFoundError")
                        EXCEPT !.prior = pgRes.op]
       ELSE \E r \in PgById(pgRecords, id) :
                pgRes' = [PgReturned("get", pair, id, PgRecord(r))
                            EXCEPT !.prior = pgRes.op]
    /\ UNCHANGED <<pgRecords, pgDeleted, redis>>

\* PostgreSQL.update: check_unicity on the body as passed, SELECT id FROM
\* records WHERE id, then UPDATE ... WHERE id or INSERT with the id.
PgUpdate(pair, id, body) ==
    /\ pgLeft > 0 /\ pgLeft' = pgLeft - 1
    /\ LET u == PgUnicity(pair, body)
       IN  IF u # <<>>
           THEN /\ PgUnicityError("update", pair, id, body, u)
                /\ UNCHANGED <<pgRecords, pgDeleted>>
           ELSE \E t \in Clock :
                IF PgById(pgRecords, id) # {}
                THEN \E old \in PgById(pgRecords, id) :
                     LET row == [old EXCEPT
                                   !.last_modified = PgStamp(old.pair, t),
                                   !.phone = body.phone, !.line = body.line]
                     IN  /\ pgRecords' = (pgRecords \ {old}) \cup {row}
                         /\ pgRes' = PgReturned("update", pair, id,
                                                PgRecord(row))
                         /\ UNCHANGED pgDeleted
                ELSE LET row == [id |-> id, pair |-> pair,
                                 last_modified |-> PgStamp(pair, t),
                                 phone |-> body.phone, line |-> body.line]
                     IN  /\ pgRecords' = pgRecords \cup {row}
                         /\ pgRes' = PgReturned("update", pair, id,
                                                PgRecord(row))
                         /\ UNCHANGED pgDeleted
    /\ UNCHANGED redis

\* PostgreSQL.delete: DELETE FROM records WHERE id = %(record_id)s, then
\* INSERT INTO deleted for the caller's pair. The tables are keyed by pair
\* and id (schema.sql): a row of deleted already holding them makes the
\* INSERT fail, and the transaction is rolled back.
PgDelete(pair, id) ==
    /\ pgLeft > 0 /\ pgLeft' = pgLeft - 1
    /\ IF PgById(pgRecords, id) = {}
       THEN /\ pgRes' = PgRaised("delete", pair, id, "RecordNotFoundError")
            /\ UNCHANGED <<pgRecords, pgDeleted>>
       ELSE IF PgById(PgOf(pgDeleted, pair), id) # {}
       THEN /\ pgRes' = PgRaised("delete", pair, id, "IntegrityError")
            /\ UNCHANGED <<pgRecords, pgDeleted>>
       ELSE \E t \in Clock :
            LET row == [id |-> id, pair |-> pair,
                        last_modified |-> PgStamp(pair, t)]
            IN  /\ pgRecords' = pgRecords \ PgById(pgRecords, id)
                /\ pgDeleted' = pgDeleted \cup {row}
                /\ pgRes' = PgReturned("delete", pair, id,
                                       StripDeleted(row))
    /\ UNCHANGED redis

\* ------------------------------------------------------------ get_all
\* One (field, value, operator) triple of a filter or of a pagination rule;
\* kind ("str", "num", "bool" or "none") tells which of str, num and bool
\* holds the Python value.
Cond(field, op, kind, str, num, bool) ==
    [field |-> field, op |-> op, kind |-> kind, str |-> str, num |-> num,
     bool |-> bool]

\* The filters, pagination rules and limits the callers pass: no filter, a
\* filter on a content field, a filter on the deletion mark; no rule, a rule
\* on the id; no limit (None), a limit of one.
QueryFilters ==
    {<<>>,
     <<Cond("phone", "eq", "str", "p", 0, FALSE)>>,
     <<Cond("deleted", "eq", "bool", "", 0, TRUE)>>}

\* The bodies of the records the queries read: one the content filter
\* keeps, one it does not.
QueryBodies == {[id |-> Null, phone |-> "p", line |-> Null],
                [id |-> Null, phone |-> Null, line |-> "l"]}

QueryRules == {<<>>, << <<Cond("id", "eq", "str", "b", 0, FALSE)>> >>}

QueryLimits == {0, 1}

Queries ==
    [filters : QueryFilters, rules : QueryRules, limit : QueryLimits,
     include_deleted : BOOLEAN, sorting : {<<>>}]

\* One (field, direction) pair of a sorting.
Sort(field, direction) == [field |-> field, direction |-> direction]

\* Queries on the deletion mark and sorted by last_modified: the mark equal
\* to and different from its value, the mark equal to False; ascending and
\* descending.
MarkerQueries ==
    [filters : {<<>>,
                <<Cond("deleted", "eq", "bool", "", 0, TRUE)>>,
                <<Cond("deleted", "not", "bool", "", 0, TRUE)>>,
                <<Cond("deleted", "eq", "bool", "", 0, FALSE)>>},
     rules : {<<>>}, limit : {0}, include_deleted : BOOLEAN,
     sorting : {<<>>, <<Sort("last_modified", 1)>>,
                <<Sort("last_modified", 0 - 1)>>}]

\* Queries on content and with pagination rules: a filter on last_modified,
\* a less-than filter on a content field; two rule-groups, the first of two
\* conditions; a sorting on a content field.
PgQueries ==
    [filters : {<<>>,
                <<Cond("last_modified", "gt", "num", "", 0, FALSE)>>,
                <<Cond("phone", "lt", "str", "p", 0, FALSE)>>},
     rules : {<<>>,
              << <<Cond("id", "eq", "str", "a", 0, FALSE),
                   Cond("last_modified", "gt", "num", "", 1, FALSE)>>,
                 <<Cond("id", "eq", "str", "b", 0, FALSE)>> >>},
     limit : {0}, include_deleted : BOOLEAN,
     sorting : {<<>>, <<Sort("phone", 1)>>}]

\* The numbers a content field holds, and the queries on that field: each
\* comparison as a filter or as a pagination rule, each direction of sorting.
NumVals == {2, 9, 10}

NumOps == {"gt", "lt", "min", "max"}

NumConds == {Cond("number", op, "num", "", n, FALSE) :
               op \in NumOps, n \in {9, 10}}

NumQueries ==
    [filters : {<<>>} \cup {<<c>> : c \in NumConds},
     rules : {<<>>} \cup {<< <<c>> >> : c \in NumConds},
     limit : {0}, include_deleted : {FALSE},
     sorting : {<<>>, <<Sort("number", 1)>>, <<Sort("number", 0 - 1)>>}]

\* The texts of the model in the order the comparison of strings gives
\* them, and the place of a text in it.
TextOrder ==
    <<"", "0", "1", "10", "2", "3", "4", "5", "6", "7", "8", "9",
      "a", "b", "false", "l", "null", "p", "true">>

TextRank(t) == CHOOSE i \in 1..Len(TextOrder) : TextOrder[i] = t

\* The orders of a set of rows: each row once.
Perms(S) ==
    {f \in [1..Cardinality(S) -> S] :
        \A i, j \in 1..Cardinality(S) : i # j => f[i] # f[j]}

\* The first n elements of a list, all of them for n = 0 (no limit).
Take(list, n) ==
    IF n = 0 \/ Len(list) <= n THEN list ELSE SubSeq(list, 1, n)

\* "LIMIT n", and the slice extract_record_set takes: without sorting the
\* rows kept are any n of them; None and 0 keep them all.
Limited(rows, limit) ==
    IF limit = 0 \/ Cardinality(rows) <= limit
    THEN {rows}
    ELSE {s \in SUBSET rows : Cardinality(s) = limit}

DEFAULT_MAX_FETCH_SIZE == 10000

\* cursor.fetchmany(self._max_fetch_size).
PgFetched(rows) ==
    IF Cardinality(rows) <= DEFAULT_MAX_FETCH_SIZE
    THEN {rows}
    ELSE {s \in SUBSET rows : Cardinality(s) = DEFAULT_MAX_FETCH_SIZE}

\* The text of a number of the model: json.dumps of an integer, and what
\* ->> gives for a number in the data column.
PgNumText(n) ==
    <<"0", "1", "2", "3", "4", "5", "6", "7", "8", "9", "10">>[n + 1]

\* json.dumps(value).strip('"') on the value of a condition: a string, a
\* boolean, a number, or None.
PgJsonText(c) ==
    IF c.kind = "str" THEN c.str
    ELSE IF c.kind = "bool" THEN (IF c.bool THEN "true" ELSE "false")
    ELSE IF c.kind = "num" THEN PgNumText(c.num)
    ELSE "null"

\* coalesce(data->>field, ''): the text of a field of the data column, ''
\* for a field that is missing or null; the data of a row of deleted is the
\* deleted mark alone.
PgDataText(row, field) ==
    IF field = "deleted"
    THEN (IF "deleted" \in DOMAIN row THEN "true" ELSE "")
    ELSE IF field = "number"
    THEN (IF "number" \in DOMAIN row THEN PgNumText(row.number) ELSE "")
    ELSE IF field \in DOMAIN row /\ row[field] # Null THEN row[field]
    ELSE ""

\* One condition of _format_conditions on a row: id and last_modified are
\* columns, any other field is compared as text, with the operator of the
\* condition put into the statement as it is.
PgCondition(row, c) ==
    IF c.field = "id"
    THEN (c.op = "eq" /\ row.id = c.str) \/ (c.op = "not" /\ row.id # c.str)
    ELSE IF c.field = "last_modified"
    THEN \/ c.op = "eq" /\ row.last_modified = c.num
         \/ c.op = "not" /\ row.last_modified # c.num
         \/ c.op = "gt" /\ row.last_modified > c.num
         \/ c.op = "lt" /\ row.last_modified < c.num
         \/ c.op = "min" /\ row.last_modified >= c.num
         \/ c.op = "max" /\ row.last_modified <= c.num
    ELSE \/ c.op = "eq" /\ PgDataText(row, c.field) = PgJsonText(c)
         \/ c.op = "not" /\ PgDataText(row, c.field) # PgJsonText(c)
         \/ c.op = "gt" /\ TextRank(PgDataText(row, c.field))
                             > TextRank(PgJsonText(c))
         \/ c.op = "lt" /\ TextRank(PgDataText(row, c.field))
                             < TextRank(PgJsonText(c))
         \/ c.op = "min" /\ TextRank(PgDataText(row, c.field))
                              >= TextRank(PgJsonText(c))
         \/ c.op = "max" /\ TextRank(PgDataText(row, c.field))
                              <= TextRank(PgJsonText(c))

\* _format_conditions: the conditions joined with AND.
PgConditions(row, filters) ==
    \A i \in 1..Len(filters) : PgCondition(row, filters[i])

\* _format_pagination: the rules joined with OR; no WHERE without rules.
PgPagination(row, rules) ==
    rules = <<>> \/ \E i \in 1..Len(rules) : PgConditions(row, rules[i])

\* collection_filtered: the rows of records of the pair the filters keep.
PgCollectionFiltered(pair, filters) ==
    {r \in {PgRecord(x) : x \in PgOf(pgRecords, pair)} :
        PgConditions(r, filters)}

\* filtered_deleted without "LIMIT 0".
PgFilteredDeletedAlways(pair, filters, include_deleted) ==
    {r \in {StripDeleted(x) : x \in PgOf(pgDeleted, pair)} :
        PgConditions(r, filters)}

\* filtered_deleted: the rows of deleted of the pair with the deleted mark
\* for data, under the same filters; "LIMIT 0" unless include_deleted.
PgFilteredDeleted(pair, filters, include_deleted) ==
    IF include_deleted
    THEN {r \in {StripDeleted(x) : x \in PgOf(pgDeleted, pair)} :
             PgConditions(r, filters)}
    ELSE {}

\* all_records joined with the ids of paginated_records.
PgPaginated(pair, q) ==
    LET all == PgFilteredDeleted(pair, q.filters, q.include_deleted)
                 \cup PgCollectionFiltered(pair, q.filters)
        ids == {r.id : r \in {x \in all : PgPagination(x, q.rules)}}
    IN  {r \in all : r.id \in ids}

\* _format_sorting, the key of one (field, direction) of the sorting: the
\* id and last_modified columns, or data->>field, which is NULL for a field
\* that is missing or null; ASC puts NULL after every text, DESC before.
PgSortKey(row, s) ==
    LET k == IF s.field = "id" THEN TextRank(row.id)
             ELSE IF s.field = "last_modified" THEN row.last_modified
             ELSE IF s.field = "deleted"
             THEN (IF "deleted" \in DOMAIN row THEN TextRank("true")
                   ELSE Len(TextOrder) + 1)
             ELSE IF s.field = "number"
             THEN (IF "number" \in DOMAIN row
                   THEN TextRank(PgNumText(row.number))
                   ELSE Len(TextOrder) + 1)
             ELSE IF s.field \in DOMAIN row /\ row[s.field] # Null
             THEN TextRank(row[s.field])
             ELSE Len(TextOrder) + 1
    IN  IF s.direction > 0 THEN k ELSE 0 - k

\* "ORDER BY" on the keys in turn: x comes strictly before y.
PgBefore(x, y, sorting) ==
    \E k \in 1..Len(sorting) :
        /\ PgSortKey(x, sorting[k]) < PgSortKey(y, sorting[k])
        /\ \A j \in 1..(k - 1) :
              PgSortKey(x, sorting[j]) = PgSortKey(y, sorting[j])

\* The lists the sorted query may give for a set of rows.
PgSorted(rows, sorting) ==
    {f \in Perms(rows) :
        \A i, j \in 1..Cardinality(rows) :
            i < j => ~PgBefore(f[j], f[i], sorting)}

\* cursor.fetchmany(self._max_fetch_size) on a sorted result.
PgFetchedList(list) == Take(list, DEFAULT_MAX_FETCH_SIZE)

\* The result of get_all: ([], 0) when no row came back; else the rows with
\* count_total, the size of collection_filtered.
PgResult(pair, q, results, list) ==
    [NoRes EXCEPT
       !.op = "get_all", !.pair = pair, !.status = "ok",
       !.query = q, !.rows = results, !.list = list,
       !.count = IF results = {} THEN 0
                 ELSE Cardinality(PgCollectionFiltered(pair, q.filters))]

\* PostgreSQL.get_all: the query with its sorting and its limit, fetchmany,
\* and the result made of the rows fetched.
PgGetAll(pair, q) ==
    /\ pgLeft > 0 /\ pgLeft' = pgLeft - 1
    /\ IF q.sorting = <<>>
       THEN \E page \in Limited(PgPaginated(pair, q), q.limit) :
            \E results \in PgFetched(page) :
               pgRes' = PgResult(pair, q, results, <<>>)
       ELSE \E sorted \in PgSorted(PgPaginated(pair, q), q.sorting) :
            LET list == PgFetchedList(Take(sorted, q.limit))
            IN  pgRes' = PgResult(pair, q, Range(list), list)
    /\ UNCHANGED <<pgRecords, pgDeleted, redis>>

\* extract_record_set, one condition on a record: a reserved field is
\* matched against the value the store gave it, a content field against the
\* data; a field that is missing or None matches "not" alone.
RsCondition(rec, c) ==
    LET has == /\ c.field \in DOMAIN rec
               /\ c.field \in Range(UniqueFields) => rec[c.field] # Null
        same == /\ has
                /\ \/ c.field = "last_modified" /\ c.kind = "num"
                      /\ rec.last_modified = c.num
                   \/ c.field = "deleted" /\ c.kind = "bool" /\ c.bool
                   \/ c.field \notin {"last_modified", "deleted"}
                      /\ c.kind = "str" /\ rec[c.field] = c.str
    IN  \/ c.op = "eq" /\ same
        \/ c.op = "not" /\ ~same
        \/ c.op = "gt" /\ has /\ c.field = "last_modified"
           /\ rec.last_modified > c.num
        \/ c.op = "lt" /\ has /\ c.field = "last_modified"
           /\ rec.last_modified < c.num
        \/ c.op = "gt" /\ has /\ c.field \notin {"last_modified", "deleted"}
           /\ c.kind = "str" /\ TextRank(rec[c.field]) > TextRank(c.str)
        \/ c.op = "lt" /\ has /\ c.field \notin {"last_modified", "deleted"}
           /\ c.kind = "str" /\ TextRank(rec[c.field]) < TextRank(c.str)

RsConditions(rec, filters) ==
    \A i \in 1..Len(filters) : RsCondition(rec, filters[i])

RsPagination(rec, rules) ==
    rules = <<>> \/ \E i \in 1..Len(rules) : RsConditions(rec, rules[i])

\* extract_record_set: the records the filters keep, the count of those of
\* them that are not deleted, then the pagination rules.
RsPaginated(recs, q) ==
    {r \in recs : RsConditions(r, q.filters) /\ RsPagination(r, q.rules)}

RsCount(recs, q) ==
    Cardinality({r \in recs : "deleted" \notin DOMAIN r
                              /\ RsConditions(r, q.filters)})

\* extract_record_set, the key of one (field, direction) of the sorting: a
\* missing field is the smallest value.
RsSortKey(rec, s) ==
    LET k == IF s.field = "last_modified" THEN rec.last_modified
             ELSE IF s.field = "deleted"
             THEN (IF "deleted" \in DOMAIN rec THEN 1 ELSE 0)
             ELSE IF s.field \in DOMAIN rec /\ rec[s.field] # Null
             THEN TextRank(rec[s.field])
             ELSE 0
    IN  IF s.direction > 0 THEN k ELSE 0 - k

RsBefore(x, y, sorting) ==
    \E k \in 1..Len(sorting) :
        /\ RsSortKey(x, sorting[k]) < RsSortKey(y, sorting[k])
        /\ \A j \in 1..(k - 1) :
              RsSortKey(x, sorting[j]) = RsSortKey(y, sorting[j])

RsSorted(recs, sorting) ==
    {f \in Perms(recs) :
        \A i, j \in 1..Cardinality(recs) :
            i < j => ~RsBefore(f[j], f[i], sorting)}

\* Redis.get_all: SMEMBERS of the ids and MGET of their keys, skipped when
\* there is no id; with include_deleted SMEMBERS and MGET of the deleted
\* keys, with no such skip: MGET of no key is an error of the server, which
\* the client raises as ResponseError or, in later releases, turns into an
\* empty list; then extract_record_set on the records read.
GetAll(p, pair, q) ==
    /\ MayCall(p)
    /\ left' = left - 1
    /\ LET live == {records[pair][i] :
                      i \in recordIds[pair] \cap DOMAIN records[pair]}
           dead == IF q.include_deleted
                   THEN {deleted[pair][i] :
                           i \in deletedIds[pair] \cap DOMAIN deleted[pair]}
                   ELSE {}
       IN  \/ /\ q.include_deleted /\ deletedIds[pair] = {}
              /\ res' = [res EXCEPT ![p] =
                           [NoRes EXCEPT !.op = "get_all", !.pair = pair,
                                         !.status = "ResponseError",
                                         !.query = q]]
           \/ /\ q.sorting = <<>>
              /\ \E page \in Limited(RsPaginated(live \cup dead, q),
                                       q.limit) :
                    res' = [res EXCEPT ![p] =
                              [NoRes EXCEPT
                                 !.op = "get_all", !.pair = pair,
                                 !.status = "ok", !.query = q, !.rows = page,
                                 !.count = RsCount(live \cup dead, q)]]
           \/ /\ q.sorting # <<>>
              /\ \E sorted \in RsSorted(RsPaginated(live \cup dead, q),
                                         q.sorting) :
                    res' = [res EXCEPT ![p] =
                              [NoRes EXCEPT
                                 !.op = "get_all", !.pair = pair,
                                 !.status = "ok", !.query = q,
                                 !.rows = Range(Take(sorted, q.limit)),
                                 !.list = Take(sorted, q.limit),
                                 !.count = RsCount(live \cup dead, q)]]
    /\ UNCHANGED pg
    /\ UNCHANGED <<timestamp, records, recordIds, deleted, deletedIds,
                   usedIds, pc, loc, issued, returned>>

\* What extract_record_set makes of the records get_all has read.
GaResult(l, recs) ==
    [NoRes EXCEPT !.op = "get_all", !.pair = l.pair, !.status = "ok",
                  !.query = l.query, !.skipped = l.skipped,
                  !.rows = RsPaginated(recs, l.query),
                  !.count = RsCount(recs, l.query)]

\* Redis.get_all beside other callers, first command: SMEMBERS of the id
\* set of the pair.
GaSmembers(p, pair, q) ==
    /\ MayCall(p)
    /\ left' = left - 1
    /\ pc' = [pc EXCEPT ![p] = "ga_mget"]
    /\ loc' = [loc EXCEPT ![p] =
                 [NoLoc EXCEPT !.op = "get_all", !.pair = pair, !.query = q,
                               !.ids = recordIds[pair]]]
    /\ res' = [res EXCEPT ![p] = NoRes]
    /\ UNCHANGED pg
    /\ UNCHANGED <<timestamp, records, recordIds, deleted, deletedIds,
                   usedIds, issued, returned>>

\* Redis.get_all, MGET of the record keys of the ids read, skipped when
\* there is none; a key without value gives None, which is left out.
\* Without include_deleted extract_record_set follows and the call returns.
GaMget(p) ==
    /\ pc[p] = "ga_mget"
    /\ LET l == loc[p]
           got == {records[l.pair][i] : i \in l.ids \cap DOMAIN records[l.pair]}
           missing == l.ids \ DOMAIN records[l.pair]
       IN  IF l.query.include_deleted
           THEN /\ pc' = [pc EXCEPT ![p] = "ga_deleted_smembers"]
                /\ loc' = [loc EXCEPT ![p].rows = got, ![p].ids = {},
                                      ![p].skipped = missing]
                /\ UNCHANGED res
           ELSE /\ pc' = [pc EXCEPT ![p] = "idle"]
                /\ loc' = [loc EXCEPT ![p] = NoLoc]
                /\ res' = [res EXCEPT ![p] =
                             GaResult([l EXCEPT !.skipped = missing], got)]
    /\ UNCHANGED pg
    /\ UNCHANGED <<timestamp, records, recordIds, deleted, deletedIds,
                   usedIds, left, issued, returned>>

\* Redis.get_all with include_deleted: SMEMBERS of the deleted set.
GaDeletedSmembers(p) ==
    /\ pc[p] = "ga_deleted_smembers"
    /\ pc' = [pc EXCEPT ![p] = "ga_deleted_mget"]
    /\ loc' = [loc EXCEPT ![p].ids = deletedIds[loc[p].pair]]
    /\ UNCHANGED pg
    /\ UNCHANGED <<timestamp, records, recordIds, deleted, deletedIds,
                   usedIds, res, left, issued, returned>>

\* Redis.get_all with include_deleted: MGET of the deleted keys of the ids
\* read, with no skip: with no id the client raises ResponseError or, in
\* later releases, gives an empty list; then extract_record_set.
GaDeletedMget(p) ==
    /\ pc[p] = "ga_deleted_mget"
    /\ LET l == loc[p]
           got == {deleted[l.pair][i] : i \in l.ids \cap DOMAIN deleted[l.pair]}
       IN  \/ /\ l.ids = {}
              /\ res' = [res EXCEPT ![p] =
                           [NoRes EXCEPT !.op = "get_all", !.pair = l.pair,
                                         !.status = "ResponseError",
                                         !.query = l.query,
                                         !.skipped = l.skipped]]
           \/ res' = [res EXCEPT ![p] = GaResult(l, l.rows \cup got)]
    /\ pc' = [pc EXCEPT ![p] = "idle"]
    /\ loc' = [loc EXCEPT ![p] = NoLoc]
    /\ UNCHANGED pg
    /\ UNCHANGED <<timestamp, records, recordIds, deleted, deletedIds,
                   usedIds, left, issued, returned>>

\* ------------------------------------------------------------ ping
\* What the Redis server does with the command of ping, and what the
\* PostgreSQL server does with the connection and the statement of ping.
RedisBackends == {"answers", "RedisError"}

PgBackends ==
    {"answers", "connect OperationalError", "execute OperationalError",
     "execute Error"}

\* Redis.ping: SETEX of the heartbeat key; True, or False on RedisError.
Ping(p) ==
    /\ MayCall(p)
    /\ left' = left - 1
    /\ \E b \in RedisBackends :
          res' = [res EXCEPT ![p] =
                    [NoRes EXCEPT !.op = "ping", !.status = "ok",
                                  !.answer = (b = "answers"),
                                  !.backend = b]]
    /\ UNCHANGED pg
    /\ UNCHANGED <<timestamp, records, recordIds, deleted, deletedIds,
                   usedIds, pc, loc, issued, returned>>

\* PostgreSQL.db: what leaves the "with self.db" block. A psycopg2.Error of
\* connect or of the block is caught, and raised again unless it is an
\* OperationalError, in whose place HTTPServiceUnavailable is raised.
PgDb(b) ==
    IF b \in {"connect OperationalError", "execute OperationalError"}
    THEN "HTTPServiceUnavailable"
    ELSE IF b = "execute Error" THEN "psycopg2.Error"
    ELSE "none"

\* PostgreSQL.ping: "SELECT now();" under self.db; True, or False on
\* psycopg2.Error; any other exception leaves ping.
PgPing ==
    /\ pgLeft > 0 /\ pgLeft' = pgLeft - 1
    /\ \E b \in PgBackends :
          pgRes' = [NoRes EXCEPT
                      !.op = "ping",
                      !.status = IF PgDb(b) \in {"none", "psycopg2.Error"}
                                 THEN "ok" ELSE PgDb(b),
                      !.answer = (PgDb(b) = "none"),
                      !.backend = b]
    /\ UNCHANGED <<pgRecords, pgDeleted, redis>>

\* The operations that run their statements under self.db.
PgOps ==
    {"create", "get", "update", "delete", "get_all", "collection_timestamp"}

\* What the statements of an operation have written on its connection when
\* the backend fails: nothing when connect or the first statement fails;
\* delete has removed the row of the id when its INSERT INTO deleted fails.
PgUncommitted(op, id, b) ==
    {<<pgRecords, pgDeleted>>}
      \cup IF op = "delete" /\ b # "connect OperationalError"
               /\ PgById(pgRecords, id) # {}
            THEN {<<pgRecords \ PgById(pgRecords, id), pgDeleted>>}
            ELSE {}

\* PostgreSQL.db without a transaction: each statement is kept as it runs.
PgRollbackNone(committed, uncommitted) == uncommitted

\* PostgreSQL.db, on psycopg2.Error: conn.rollback() when the connection is
\* there and open, and conn.close() without commit: the tables are those
\* of the last commit.
PgRollback(committed, uncommitted) == committed

\* An operation met by a failing backend: its statements up to the failing
\* one, then the exception handling of self.db; commit is not reached.
PgFail(op, pair, id, b) ==
    /\ pgLeft > 0 /\ pgLeft' = pgLeft - 1
    /\ b # "answers"
    /\ \E u \in PgUncommitted(op, id, b) :
          LET tables == PgRollback(<<pgRecords, pgDeleted>>, u)
          IN  /\ pgRecords' = tables[1]
              /\ pgDeleted' = tables[2]
    /\ pgRes' = [PgRaised(op, pair, id, PgDb(b)) EXCEPT !.backend = b]
    /\ UNCHANGED redis

\* ------------------------------------------------------------ specification
Next ==
    \/ \E p \in Procs, pair \in OnePair, body \in Bodies : Create(p, pair, body)
    \/ \E p \in Procs, pair \in OnePair, id \in Ids, body \in Bodies :
          Update(p, pair, id, body)
    \/ \E p \in Procs, pair \in OnePair, id \in Ids : Delete(p, pair, id)
    \/ \E p \in Procs, pair \in OnePair, id \in Ids : Get(p, pair, id)
    \/ \E p \in Procs, pair \in OnePair : CollectionTimestamp(p, pair)
    \/ \E p \in Procs : CuSmembers(p)
    \/ \E p \in Procs : CuMget(p)
    \/ \E p \in Procs : BumpWatch(p)
    \/ \E p \in Procs : BumpGet(p)
    \/ \E p \in Procs : BumpExec(p)
    \/ \E p \in Procs : Write(p)
    \/ \E p \in Procs : Tombstone(p)

Spec == Init /\ [][Next]_vars

\* The steps a caller takes inside a call.
CallSteps(p) ==
    \/ CuSmembers(p) \/ CuMget(p)
    \/ BumpWatch(p) \/ BumpGet(p) \/ BumpExec(p)
    \/ Write(p) \/ Tombstone(p)

\* Two callers that write only, with one body.
InitLive == InitStore /\ left = MaxLiveCalls /\ pgLeft = 0

NextLive ==
    \/ \E p \in Procs, pair \in OnePair, body \in RaceBodies :
          Create(p, pair, body)
    \/ \E p \in Procs, pair \in OnePair, id \in Ids, body \in RaceBodies :
          Update(p, pair, id, body)
    \/ \E p \in Procs, pair \in OnePair, id \in Ids : Delete(p, pair, id)
    \/ \E p \in Procs : CallSteps(p)

\* A caller inside a call keeps running: each caller's own steps are taken
\* as long as they stay possible. When callers start calls is left open.
SpecLive ==
    InitLive /\ [][NextLive]_vars /\ \A p \in Procs : WF_vars(CallSteps(p))

\* The collections of records with a number in them: one record or two,
\* created one after the other.
NumTables ==
    UNION {{{[id |-> i, pair |-> pair, last_modified |-> IdRank[i],
              phone |-> Null, line |-> Null, number |-> n[i]] : i \in S} :
              n \in [S -> NumVals]} :
           pair \in OnePair, S \in {{"a"}, {"a", "b"}}}

InitNum ==
    /\ timestamp = [pr \in Pairs |-> <<>>]
    /\ records = [pr \in Pairs |-> NoKeys]
    /\ recordIds = [pr \in Pairs |-> {}]
    /\ deleted = [pr \in Pairs |-> NoKeys]
    /\ deletedIds = [pr \in Pairs |-> {}]
    /\ usedIds = {}
    /\ pc = [p \in Procs |-> "idle"]
    /\ loc = [p \in Procs |-> NoLoc]
    /\ res = [p \in Procs |-> NoRes]
    /\ issued = [pr \in Pairs |-> <<>>]
    /\ returned = [pr \in Pairs |-> <<>>]
    /\ pgRecords \in NumTables
    /\ pgDeleted = {}
    /\ pgRes = NoRes
    /\ left = 0
    /\ pgLeft = MaxNumCalls

NextNum == \E pair \in OnePair, q \in NumQueries : PgGetAll(pair, q)

SpecNum == InitNum /\ [][NextNum]_vars

\* The relational adapter with a backend that may fail under any call.
InitPgFail == InitStore /\ left = 0 /\ pgLeft = MaxPgFailCalls

NextPgFail ==
    \/ \E pair \in Pairs, body \in QueryBodies : PgCreate(pair, body)
    \/ \E pair \in Pairs, id \in Ids : PgDelete(pair, id)
    \/ \E op \in PgOps, pair \in Pairs, id \in Ids, b \in PgBackends :
          PgFail(op, pair, id, b)

SpecPgFail == InitPgFail /\ [][NextPgFail]_vars

\* Two callers that write and read collections, each command of a read of
\* its own among the commands of the other caller.
ScanQueries ==
    [filters : {<<>>}, rules : {<<>>}, limit : {0},
     include_deleted : BOOLEAN, sorting : {<<>>}]

InitScan == InitStore /\ left = MaxScanCalls /\ pgLeft = 0

NextScan ==
    \/ \E p \in Procs, pair \in OnePair, body \in RaceBodies :
          Create(p, pair, body)
    \/ \E p \in Procs, pair \in OnePair, id \in Ids, body \in RaceBodies :
          Update(p, pair, id, body)
    \/ \E p \in Procs, pair \in OnePair, id \in Ids : Delete(p, pair, id)
    \/ \E p \in Procs : CallSteps(p)
    \/ \E p \in Procs, pair \in OnePair, q \in ScanQueries :
          GaSmembers(p, pair, q)
    \/ \E p \in Procs : GaMget(p)
    \/ \E p \in Procs : GaDeletedSmembers(p)
    \/ \E p \in Procs : GaDeletedMget(p)

SpecScan == InitScan /\ [][NextScan]_vars

\* Two callers that create and delete: one more call than above, for two
\* deletes to meet the record a create has made; no id is made live twice.
InitRace == InitStore /\ left = MaxRaceCalls /\ pgLeft = 0

NextRace ==
    \/ \E p \in Procs, pair \in OnePair, body \in RaceBodies :
          Create(p, pair, body)
    \/ \E p \in Procs, pair \in OnePair, id \in Ids : Delete(p, pair, id)
    \/ \E p \in Procs : CallSteps(p)

SpecRace == InitRace /\ [][NextRace]_vars

\* One caller alone, on every pair and with every body.
InitSeq == InitStore /\ left = MaxSeqCalls /\ pgLeft = 0

NextSeq ==
    \/ \E pair \in Pairs, body \in Payloads : Create("c1", pair, body)
    \/ \E pair \in Pairs, id \in Ids, body \in Payloads :
          Update("c1", pair, id, body)
    \/ \E pair \in Pairs, id \in Ids : Delete("c1", pair, id)
    \/ \E pair \in Pairs, id \in Ids : Get("c1", pair, id)
    \/ \E pair \in Pairs : CollectionTimestamp("c1", pair)
    \/ CuSmembers("c1")
    \/ CuMget("c1")
    \/ BumpWatch("c1")
    \/ BumpGet("c1")
    \/ BumpExec("c1")
    \/ Write("c1")
    \/ Tombstone("c1")

SpecSeq == InitSeq /\ [][NextSeq]_vars

\* The relational adapter, on every pair and with every body.
InitPG == InitStore /\ left = 0 /\ pgLeft = MaxPgCalls

NextPG ==
    \/ \E pair \in Pairs, body \in Payloads : PgCreate(pair, body)
    \/ \E pair \in Pairs, id \in Ids : PgGet(pair, id)
    \/ \E pair \in Pairs, id \in Ids, body \in Payloads :
          PgUpdate(pair, id, body)
    \/ \E pair \in Pairs, id \in Ids : PgDelete(pair, id)

SpecPG == InitPG /\ [][NextPG]_vars

\* One caller on one adapter, either of the two.
InitOne ==
    /\ InitStore
    /\ \/ left = MaxOneCalls /\ pgLeft = 0
       \/ left = 0 /\ pgLeft = MaxOneCalls

NextOne ==
    \/ \E pair \in OnePair, body \in Bodies : Create("c1", pair, body)
    \/ \E pair \in OnePair, id \in Ids, body \in Bodies :
          Update("c1", pair, id, body)
    \/ \E pair \in OnePair, id \in Ids : Delete("c1", pair, id)
    \/ \E pair \in OnePair, id \in Ids : Get("c1", pair, id)
    \/ CuSmembers("c1")
    \/ CuMget("c1")
    \/ BumpWatch("c1")
    \/ BumpGet("c1")
    \/ BumpExec("c1")
    \/ Write("c1")
    \/ Tombstone("c1")
    \/ \E pair \in Pairs, body \in Bodies : PgCreate(pair, body)
    \/ \E pair \in Pairs, id \in Ids : PgGet(pair, id)
    \/ \E pair \in Pairs, id \in Ids, body \in Bodies :
          PgUpdate(pair, id, body)
    \/ \E pair \in Pairs, id \in Ids : PgDelete(pair, id)

SpecOne == InitOne /\ [][NextOne]_vars

\* One caller on one adapter, reading collections too.
InitAll ==
    /\ InitStore
    /\ \/ left = MaxAllCalls /\ pgLeft = 0
       \/ left = 0 /\ pgLeft = MaxAllCalls

NextAll ==
    \/ \E pair \in OnePair, body \in QueryBodies : Create("c1", pair, body)
    \/ \E pair \in OnePair, id \in Ids, body \in QueryBodies :
          Update("c1", pair, id, body)
    \/ \E pair \in OnePair, id \in Ids : Delete("c1", pair, id)
    \/ \E pair \in OnePair, id \in Ids : Get("c1", pair, id)
    \/ CuSmembers("c1")
    \/ CuMget("c1")
    \/ BumpWatch("c1")
    \/ BumpGet("c1")
    \/ BumpExec("c1")
    \/ Write("c1")
    \/ Tombstone("c1")
    \/ \E pair \in Pairs, body \in QueryBodies : PgCreate(pair, body)
    \/ \E pair \in Pairs, id \in Ids : PgGet(pair, id)
    \/ \E pair \in Pairs, id \in Ids, body \in QueryBodies :
          PgUpdate(pair, id, body)
    \/ \E pair \in Pairs, id \in Ids : PgDelete(pair, id)
    \/ \E pair \in OnePair, q \in Queries : GetAll("c1", pair, q)
    \/ \E pair \in Pairs, q \in Queries : PgGetAll(pair, q)

SpecAll == InitAll /\ [][NextAll]_vars

\* One caller on one adapter, reading collections by the deletion mark and
\* sorted.
NextQuery ==
    \/ \E pair \in OnePair, body \in QueryBodies : Create("c1", pair, body)
    \/ \E pair \in OnePair, id \in Ids, body \in QueryBodies :
          Update("c1", pair, id, body)
    \/ \E pair \in OnePair, id \in Ids : Delete("c1", pair, id)
    \/ \E pair \in OnePair, id \in Ids : Get("c1", pair, id)
    \/ CuSmembers("c1")
    \/ CuMget("c1")
    \/ BumpWatch("c1")
    \/ BumpGet("c1")
    \/ BumpExec("c1")
    \/ Write("c1")
    \/ Tombstone("c1")
    \/ \E pair \in Pairs, body \in QueryBodies : PgCreate(pair, body)
    \/ \E pair \in Pairs, id \in Ids : PgGet(pair, id)
    \/ \E pair \in Pairs, id \in Ids, body \in QueryBodies :
          PgUpdate(pair, id, body)
    \/ \E pair \in Pairs, id \in Ids : PgDelete(pair, id)
    \/ \E pair \in OnePair, q \in MarkerQueries : GetAll("c1", pair, q)
    \/ \E pair \in Pairs, q \in MarkerQueries : PgGetAll(pair, q)

SpecQuery == InitAll /\ [][NextQuery]_vars

\* The relational adapter, reading collections with filters on content,
\* pagination rules and a sorting on content.
InitPgQuery == InitStore /\ left = 0 /\ pgLeft = MaxPgQueryCalls

NextPgQuery ==
    \/ \E pair \in Pairs, body \in QueryBodies : PgCreate(pair, body)
    \/ \E pair \in Pairs, id \in Ids : PgGet(pair, id)
    \/ \E pair \in Pairs, id \in Ids, body \in QueryBodies :
          PgUpdate(pair, id, body)
    \/ \E pair \in Pairs, id \in Ids : PgDelete(pair, id)
    \/ \E pair \in Pairs, q \in PgQueries : PgGetAll(pair, q)

SpecPgQuery == InitPgQuery /\ [][NextPgQuery]_vars

\* One caller on one adapter, probing the backend too.
NextPing ==
    \/ NextOne
    \/ Ping("c1")
    \/ PgPing

SpecPing == InitOne /\ [][NextPing]_vars

\* ------------------------------------------------------------ properties
\* A completed create, update or delete, and the modified value it returned.
IsWrite(r) == r.status = "ok" /\ r.op \in {"create", "update", "delete"}

Modified(r) == r.rec[1].last_modified

\* C1: for each pair, the stamps _bump_timestamp installs are strictly
\* increasing in the order they are installed, and the modified values the
\* writes return are pairwise distinct, whatever the interleaving.
StampsDistinctAndIncreasing ==
    \A pair \in Pairs :
        /\ \A i, j \in 1..Len(issued[pair]) :
              i < j => issued[pair][i] < issued[pair][j]
        /\ \A i, j \in 1..Len(returned[pair]) :
              i # j => returned[pair][i] # returned[pair][j]

\* Two writes of one pair overlapped (a second stamp was issued during a
\* call) and both have returned.
OverlappingWritesReturned ==
    \E p \in Procs :
        /\ IsWrite(res[p]) /\ res[p].bumps >= 2
        /\ Len(returned[res[p].pair]) >= 2

\* C2: a write invoked after another write of the pair has returned gets a
\* modified value strictly greater than the one that write returned.
RealTimeOrder ==
    \A p \in Procs :
        IsWrite(res[p]) => \A s \in res[p].seen : s < Modified(res[p])

\* A write has returned that was invoked after another write had returned.
WriteAfterReturnedWrite ==
    \E p \in Procs : IsWrite(res[p]) /\ res[p].seen # {}

\* C3: the stamp of a write is max(clock reading, last + 1) when the pair
\* has a last stamp and the clock reading otherwise; so it exceeds the last
\* stamp even when the clock reads less.
StampIsMaxOfClockAndLast ==
    \A p \in Procs :
        IsWrite(res[p]) =>
            /\ Modified(res[p]) =
                  IF res[p].previous # <<>>
                  THEN Max(res[p].clock, res[p].previous[1] + 1)
                  ELSE res[p].clock
            /\ res[p].previous # <<>> => Modified(res[p]) > res[p].previous[1]

\* A create has returned whose clock reading was below the stored stamp.
CreateWithClockSetBack ==
    \E p \in Procs :
        /\ IsWrite(res[p]) /\ res[p].op = "create"
        /\ res[p].previous # <<>> /\ res[p].clock < res[p].previous[1]

\* C4: in every state the stored stamp of a pair is at least the modified
\* value of each of its live records and tombstones, and at least every
\* modified value a write of the pair has returned.
StampCoversStored ==
    \A pair \in Pairs, t \in Clock :
        /\ \A i \in DOMAIN records[pair] :
              /\ timestamp[pair] # <<>>
              /\ records[pair][i].last_modified
                   <= CollectionStamp(timestamp[pair], t)
        /\ \A i \in DOMAIN deleted[pair] :
              /\ timestamp[pair] # <<>>
              /\ deleted[pair][i].last_modified
                   <= CollectionStamp(timestamp[pair], t)
        /\ \A k \in 1..Len(returned[pair]) :
              /\ timestamp[pair] # <<>>
              /\ returned[pair][k] <= CollectionStamp(timestamp[pair], t)

\* A record of the pair is stored while another write of the pair holds a
\* stamp it has not stored yet.
StoredWhileWriting ==
    \E pair \in Pairs, p \in Procs :
        /\ DOMAIN records[pair] # {}
        /\ pc[p] \in {"write", "tombstone"} /\ loc[p].pair = pair

\* C5, as claimed: every successful write strictly increases what
\* collection_timestamp returns for the pair, and with no other write in
\* between collection_timestamp then returns the write's modified value.
WriteRaisesCollectionTimestamp ==
    \A p \in Procs :
        IsWrite(res[p]) =>
            /\ CollectionStamp(res[p].before, res[p].t0) < res[p].after[1]
            /\ res[p].bumps = 1 => res[p].after[1] = Modified(res[p])

\* C5, amended: every successful write on a pair whose stamp is stored
\* strictly increases that stamp, and with no other write in between
\* collection_timestamp then returns the write's modified value.
WriteRaisesStoredStamp ==
    \A p \in Procs :
        IsWrite(res[p]) =>
            /\ res[p].before # <<>> => res[p].before[1] < res[p].after[1]
            /\ res[p].bumps = 1 => res[p].after[1] = Modified(res[p])

\* A delete has returned its tombstone on a pair that had a stamp, with no
\* other write in between.
DeleteOnStampedPair ==
    \E p \in Procs :
        /\ IsWrite(res[p]) /\ res[p].op = "delete"
        /\ res[p].before # <<>> /\ res[p].bumps = 1

\* C6: a call of collection_timestamp changes no key of the store, and on a
\* pair with no timestamp key it returns its reading of the clock and leaves
\* the key missing.
CollectionTimestampReadsOnly ==
    [][\A p \in Procs :
          (/\ pc[p] = "idle" /\ left' < left /\ res'[p] # res[p]
           /\ res'[p].op = "collection_timestamp")
          => /\ store' = store
             /\ timestamp[res'[p].pair] = <<>> =>
                   /\ res'[p].value = <<res'[p].clock>>
                   /\ timestamp'[res'[p].pair] = <<>>]_vars

\* Two calls of collection_timestamp on a pair still without a timestamp key
\* returned two different readings of the clock.
TwoReadingsOfEmptyPair ==
    \E p, q \in Procs :
        /\ res[p].op = "collection_timestamp" /\ res[p].previous = <<>>
        /\ res[q].op = "collection_timestamp" /\ res[q].previous = <<>>
        /\ res[p].pair = res[q].pair /\ timestamp[res[p].pair] = <<>>
        /\ res[p].value # res[q].value


\* C7: no id of a pair has both a live record and a tombstone.
TombstoneExclusive ==
    \A pair \in Pairs : DOMAIN records[pair] \cap DOMAIN deleted[pair] = {}

\* C9: no two live records of a pair hold the same non-null value in a
\* unique field.
UniqueAmongLive ==
    \A pair \in Pairs :
        \A i, j \in DOMAIN records[pair] :
            \A k \in 1..Len(UniqueFields) :
                LET f == UniqueFields[k]
                IN  (i # j /\ records[pair][i][f] # Null)
                    => records[pair][i][f] # records[pair][j][f]

\* C10: a create that passed check_unicity is about to store a record no
\* live record of the pair collides with; a create that raised UnicityError
\* carries a unique field and a live record of the pair whose value in that
\* field is the body's, not null.
CreateRaisesExactlyOnCollision ==
    /\ (pc["c1"] = "write" /\ loc["c1"].op = "create") =>
          \A i \in DOMAIN records[loc["c1"].pair] :
              \A k \in 1..Len(UniqueFields) :
                  LET f == UniqueFields[k]
                  IN  loc["c1"].rec[f] # Null
                      => records[loc["c1"].pair][i][f] # loc["c1"].rec[f]
    /\ (res["c1"].op = "create" /\ res["c1"].status = "UnicityError") =>
          LET r == res["c1"].rec[1]
          IN  /\ r.id \in DOMAIN records[res["c1"].pair]
              /\ records[res["c1"].pair][r.id] = r
              /\ r[res["c1"].field] # Null
              /\ res["c1"].value = <<r[res["c1"].field]>>

\* C8: get and delete raise RecordNotFoundError whenever the id is not a
\* live record of the pair of the call, and a delete that raises it leaves
\* both tables as they were.
NotFoundUnlessLive ==
    [][(pgLeft' < pgLeft /\ pgRes'.op \in {"get", "delete"}) =>
         /\ PgById(PgOf(pgRecords, pgRes'.pair), pgRes'.id) = {}
              => pgRes'.status = "RecordNotFoundError"
         /\ (pgRes'.op = "delete" /\ pgRes'.status = "RecordNotFoundError")
              => UNCHANGED <<pgRecords, pgDeleted>>]_vars

\* C11: a create or update that fails with UnicityError changes no state:
\* no step of a call, from its entry to the end of check_unicity, and in
\* particular the step that raises UnicityError, writes a record, the id
\* set, a tombstone or the stamp of any pair.
UnicityErrorChangesNothing ==
    [][\A p \in Procs :
          (/\ \/ pc[p] \in {"cu_smembers", "cu_mget"}
              \/ pc'[p] \in {"cu_smembers", "cu_mget"}
              \/ res'[p].status = "UnicityError"
           /\ <<pc[p], loc[p], res[p]>> # <<pc'[p], loc'[p], res'[p]>>)
          => store' = store]_vars

\* A create or an update has failed with UnicityError on a pair that holds
\* a record and a stamp.
UnicityErrorsRaised ==
    \E p \in Procs :
        /\ res[p].status = "UnicityError" /\ res[p].op \in {"create", "update"}
        /\ DOMAIN records[res[p].pair] # {}
        /\ timestamp[res[p].pair] # <<>>

\* C12: update(id, R) raises UnicityError only against a live record other
\* than the one stored at id, and it succeeds only when no other live record
\* of the pair holds a non-null unique value of R.
UpdateExcludesOwnRecord ==
    [][(pgLeft' < pgLeft /\ pgRes'.op = "update") =>
         /\ pgRes'.status = "UnicityError" => pgRes'.rec[1].id # pgRes'.id
         /\ pgRes'.status = "ok" =>
               \A r \in PgOf(pgRecords, pgRes'.pair) :
                   \A k \in 1..Len(UniqueFields) :
                       LET f == UniqueFields[k]
                       IN  (r.id # pgRes'.id /\ pgRes'.rec[1][f] # Null)
                           => r[f] # pgRes'.rec[1][f]]_vars

\* C13: a get that returns a record returns a live record of the pair of
\* the call; it raises RecordNotFoundError when the id is live only under
\* another tenant or another resource.
TenantReadIsolation ==
    [][(pgLeft' < pgLeft /\ pgRes'.op = "get" /\ pgRes'.status = "ok") =>
         \E r \in PgOf(pgRecords, pgRes'.pair) :
             r.id = pgRes'.id /\ pgRes'.rec = <<PgRecord(r)>>]_vars

\* C14: a create, update or delete issued for one pair leaves the live
\* records and the tombstones of every other pair, and so its collection
\* stamp, unchanged.
TenantWriteIsolation ==
    [][(pgLeft' < pgLeft /\ pgRes'.op \in {"create", "update", "delete"}) =>
         \A other \in Pairs \ {pgRes'.pair} :
             /\ PgOf(pgRecords', other) = PgOf(pgRecords, other)
             /\ PgOf(pgDeleted', other) = PgOf(pgDeleted, other)]_vars

\* C15: a get of the id a create has just returned, on the same pair and
\* with no write in between, returns a record equal to the one create
\* returned: same content, same identity, same modified value. On either
\* adapter, whatever the body carried.
GetAfterCreate ==
    [][/\ \A p \in Procs :
            (/\ left' < left /\ res'[p].op = "get"
             /\ res[p].op = "create" /\ res[p].status = "ok"
             /\ res'[p].pair = res[p].pair /\ res'[p].id = res[p].rec[1].id)
            => (res'[p].status = "ok" /\ res'[p].rec = res[p].rec)
       /\ (/\ pgLeft' < pgLeft /\ pgRes'.op = "get"
           /\ pgRes.op = "create" /\ pgRes.status = "ok"
           /\ pgRes'.pair = pgRes.pair /\ pgRes'.id = pgRes.rec[1].id)
          => (pgRes'.status = "ok" /\ pgRes'.rec = pgRes.rec)]_vars

\* On the relational adapter a get that followed a create has returned a
\* record with content.
GotCreatedRecord ==
    /\ pgRes.op = "get" /\ pgRes.status = "ok" /\ pgRes.prior = "create"
    /\ pgLeft = MaxOneCalls - 2
    /\ pgRes.rec[1].phone = "p"

\* C16: a successful update(id, R) leaves a live record of the pair of the
\* call at id, created when there was none, equal to the record update
\* returns, with identity id whatever R carried (so that a following get
\* of the pair returns it).
UpdateUpserts ==
    [][(pgLeft' < pgLeft /\ pgRes'.op = "update" /\ pgRes'.status = "ok") =>
         /\ pgRes'.rec[1].id = pgRes'.id
         /\ \E r \in PgOf(pgRecords', pgRes'.pair) :
               r.id = pgRes'.id /\ pgRes'.rec = <<PgRecord(r)>>]_vars

LiveMatching(recs, filters) ==
    {r \in recs : "deleted" \notin DOMAIN r /\ RsConditions(r, filters)}

TombstonesMatching(recs, filters) ==
    {r \in recs : "deleted" \in DOMAIN r /\ RsConditions(r, filters)}

\* What the two adapters store for a pair: live records and tombstones.
RedisStored(pair) ==
    {records[pair][i] : i \in DOMAIN records[pair]}
      \cup {deleted[pair][i] : i \in DOMAIN deleted[pair]}

PgStored(pair) ==
    {PgRecord(r) : r \in PgOf(pgRecords, pair)}
      \cup {StripDeleted(r) : r \in PgOf(pgDeleted, pair)}

\* A step that is a get_all of the caller, on either adapter.
RedisGetAllStep ==
    left' < left /\ pc'["c1"] = "idle" /\ res'["c1"].op = "get_all"

PgGetAllStep == pgLeft' < pgLeft /\ pgRes'.op = "get_all"

\* C18: with N live records and M tombstones matching the filters,
\* get_all(include_deleted=True) without pagination rules and without limit
\* returns N + M rows and the count N (0 when only tombstones match).
CountExcludesTombstones ==
    [][/\ (/\ RedisGetAllStep
           /\ res'["c1"].query.include_deleted
           /\ res'["c1"].query.rules = <<>>
           /\ res'["c1"].query.limit = 0)
          => LET r == res'["c1"]
                 N == Cardinality(LiveMatching(RedisStored(r.pair),
                                               r.query.filters))
                 M == Cardinality(TombstonesMatching(RedisStored(r.pair),
                                                     r.query.filters))
             IN  /\ r.status = "ok"
                 /\ Cardinality(r.rows) = N + M
                 /\ r.count = N
       /\ (/\ PgGetAllStep
           /\ pgRes'.query.include_deleted
           /\ pgRes'.query.rules = <<>>
           /\ pgRes'.query.limit = 0)
          => LET N == Cardinality(LiveMatching(PgStored(pgRes'.pair),
                                               pgRes'.query.filters))
                 M == Cardinality(TombstonesMatching(PgStored(pgRes'.pair),
                                                     pgRes'.query.filters))
             IN  /\ pgRes'.status = "ok"
                 /\ Cardinality(pgRes'.rows) = N + M
                 /\ pgRes'.count = N
      ]_vars

\* C19: the count get_all returns is the number of live records matching
\* the filters, whatever the pagination rules and the limit, also when the
\* rules select no row and the page is empty.
CountIgnoresPagination ==
    [][/\ (RedisGetAllStep /\ res'["c1"].status = "ok")
          => res'["c1"].count =
               Cardinality(LiveMatching(RedisStored(res'["c1"].pair),
                                        res'["c1"].query.filters))
       /\ (PgGetAllStep /\ pgRes'.status = "ok")
          => pgRes'.count =
               Cardinality(LiveMatching(PgStored(pgRes'.pair),
                                        pgRes'.query.filters))
      ]_vars

\* The rows a get_all of the pair may return: its live records and, with
\* include_deleted, its tombstones.
Returnable(stored, include_deleted) ==
    {r \in stored : "deleted" \in DOMAIN r => include_deleted}

\* C20: get_all returns a tombstone only with include_deleted; without it
\* every row returned is a live record of the pair, whatever the filters
\* (the one on the deletion mark too); a tombstone returned has the id, the
\* timestamp and the deletion mark, nothing else.
TombstonesOnlyOnRequest ==
    [][/\ (RedisGetAllStep /\ res'["c1"].status = "ok")
          => LET r == res'["c1"]
             IN  /\ r.rows \subseteq Returnable(RedisStored(r.pair),
                                                r.query.include_deleted)
                 /\ \A x \in r.rows :
                       "deleted" \in DOMAIN x
                         => /\ DOMAIN x = {"id", "last_modified", "deleted"}
                            /\ x.deleted = TRUE
       /\ (PgGetAllStep /\ pgRes'.status = "ok")
          => /\ pgRes'.rows \subseteq Returnable(PgStored(pgRes'.pair),
                                                 pgRes'.query.include_deleted)
             /\ \A x \in pgRes'.rows :
                   "deleted" \in DOMAIN x
                     => /\ DOMAIN x = {"id", "last_modified", "deleted"}
                        /\ x.deleted = TRUE
      ]_vars

\* A get_all filtering on the deletion mark has returned a tombstone.
TombstoneReturned ==
    /\ pgRes.op = "get_all"
    /\ pgRes.query.filters # <<>>
    /\ \E x \in pgRes.rows : "deleted" \in DOMAIN x

\* Whether every condition of a filter is on the id or on last_modified, and
\* whether one of them is an equals, greater or less on a content field.
OnReserved(filters) ==
    \A i \in 1..Len(filters) : filters[i].field \in {"id", "last_modified"}

OnContent(filters) ==
    \E i \in 1..Len(filters) :
        /\ filters[i].field \notin {"id", "last_modified", "deleted"}
        /\ filters[i].op \in {"eq", "gt", "lt"}

\* What a get_all without pagination rules and limit must return under a
\* filter: the rows kept by the store-managed values when the filter is on
\* id or last_modified, and no tombstone when it compares a content field.
FilterRespected(r, stored) ==
    /\ r.status = "ok"
    /\ OnReserved(r.query.filters)
         => r.rows = {x \in stored : RsConditions(x, r.query.filters)}
    /\ OnContent(r.query.filters)
         => \A x \in r.rows : "deleted" \notin DOMAIN x

\* C21: with include_deleted, a filter on last_modified or on the id selects
\* tombstones and live records alike by the value the store gave them, and
\* an equals, greater or less filter on a content field selects no
\* tombstone.
ContentFilterSkipsTombstones ==
    [][/\ (/\ RedisGetAllStep
           /\ res'["c1"].query.include_deleted
           /\ res'["c1"].query.rules = <<>>
           /\ res'["c1"].query.limit = 0)
          => FilterRespected(res'["c1"], RedisStored(res'["c1"].pair))
       /\ (/\ PgGetAllStep
           /\ pgRes'.query.include_deleted
           /\ pgRes'.query.rules = <<>>
           /\ pgRes'.query.limit = 0)
          => FilterRespected(pgRes', PgStored(pgRes'.pair))
      ]_vars

\* The live records and the tombstones among the rows stored for a pair.
LiveOf(stored) == {x \in stored : "deleted" \notin DOMAIN x}

TombstonesOf(stored) == {x \in stored : "deleted" \in DOMAIN x}

\* What a get_all with include_deleted, without pagination rules and limit,
\* must return under a filter of one condition on the deletion mark.
MarkerRespected(r, stored) ==
    LET c == r.query.filters[1]
    IN  /\ r.status = "ok"
        /\ (c.op = "eq" /\ c.bool)
             => r.rows = TombstonesOf(stored) /\ r.count = 0
        /\ (c.op = "not" /\ c.bool)
             => /\ r.rows = LiveOf(stored)
                /\ r.count = Cardinality(LiveOf(stored))
        /\ (c.op = "eq" /\ ~c.bool)
             => r.rows = {} /\ r.count = 0

OnMarker(q) ==
    /\ q.include_deleted /\ q.rules = <<>> /\ q.limit = 0
    /\ Len(q.filters) = 1
    /\ q.filters[1].field = "deleted" /\ q.filters[1].kind = "bool"

\* C22: with include_deleted, the filter (deleted, True, EQ) returns exactly
\* the tombstones with count 0, (deleted, True, NOT) exactly the live records
\* with their number for count, (deleted, False, EQ) no row and count 0.
MarkerFilterSplitsRows ==
    [][/\ (RedisGetAllStep /\ OnMarker(res'["c1"].query))
          => MarkerRespected(res'["c1"], RedisStored(res'["c1"].pair))
       /\ (PgGetAllStep /\ OnMarker(pgRes'.query))
          => MarkerRespected(pgRes', PgStored(pgRes'.pair))
      ]_vars

\* A row a step stores carries a last_modified above that of every row the
\* pair held: the order of the stamps of a pair is the order of its writes.
StampsFollowWrites(before, after) ==
    \A x \in after \ before : \A y \in before :
        y.last_modified < x.last_modified

\* A list holds the rows stored, each once, last_modified going up
\* (direction 1) or down (direction -1).
InWriteOrder(r, stored) ==
    /\ r.status = "ok"
    /\ Len(r.list) = Cardinality(stored)
    /\ Range(r.list) = stored
    /\ \A i, j \in 1..Len(r.list) :
          i < j => IF r.query.sorting[1].direction > 0
                   THEN r.list[i].last_modified < r.list[j].last_modified
                   ELSE r.list[i].last_modified > r.list[j].last_modified

OnModifiedSort(q) ==
    /\ q.include_deleted /\ q.filters = <<>> /\ q.rules = <<>> /\ q.limit = 0
    /\ Len(q.sorting) = 1 /\ q.sorting[1].field = "last_modified"

\* C23: after creates and deletes issued one after the other on a pair,
\* get_all sorted by last_modified with include_deleted returns the live
\* records and the tombstones in the order of the writes (ascending) or in
\* the reverse order (descending), a tombstone at the place of its delete.
SortedInWriteOrder ==
    [][/\ \A pair \in Pairs :
            /\ StampsFollowWrites(RedisStored(pair), RedisStored(pair)')
            /\ StampsFollowWrites(PgStored(pair), PgStored(pair)')
       /\ (RedisGetAllStep /\ OnModifiedSort(res'["c1"].query))
          => InWriteOrder(res'["c1"], RedisStored(res'["c1"].pair))
       /\ (PgGetAllStep /\ OnModifiedSort(pgRes'.query))
          => InWriteOrder(pgRes', PgStored(pgRes'.pair))
      ]_vars

\* Whether a row has a value for a content field.
HasField(x, field) == field \in DOMAIN x /\ x[field] # Null

\* In a list sorted ascending on a content field no row with a value for
\* the field comes before a row without one.
MissingComeFirst(r) ==
    LET f == r.query.sorting[1].field
    IN  /\ r.status = "ok"
        /\ \A i, j \in 1..Len(r.list) :
              i < j => ~(HasField(r.list[i], f) /\ ~HasField(r.list[j], f))

OnContentSort(q) ==
    /\ Len(q.sorting) = 1
    /\ q.sorting[1].field \notin {"id", "last_modified", "deleted"}
    /\ q.sorting[1].direction > 0

\* C24: when get_all sorts ascending on a content field, every row without
\* the field (each tombstone, each live record lacking it) comes before
\* every row with a value for it, on each adapter.
MissingFieldSortsFirst ==
    [][/\ (RedisGetAllStep /\ OnContentSort(res'["c1"].query))
          => MissingComeFirst(res'["c1"])
       /\ (PgGetAllStep /\ OnContentSort(pgRes'.query))
          => MissingComeFirst(pgRes')
      ]_vars

\* Without filters and limit the rows returned are those of the union of
\* live records and tombstones that satisfy every condition of one
\* rule-group at least, all of them when there is no rule-group.
RulesRespected(r, stored) ==
    /\ r.status = "ok"
    /\ r.rows = {x \in Returnable(stored, r.query.include_deleted) :
                    \/ r.query.rules = <<>>
                    \/ \E i \in 1..Len(r.query.rules) :
                          \A k \in 1..Len(r.query.rules[i]) :
                              RsCondition(x, r.query.rules[i][k])}

PingNeverRaises ==
    /\ \A p \in Procs :
          res[p].op = "ping"
            => /\ res[p].status = "ok"
               /\ res[p].answer <=> res[p].backend = "answers"
    /\ pgRes.op = "ping"
         => /\ pgRes.status = "ok"
            /\ pgRes.answer <=> pgRes.backend = "answers"

\* C27: the delete of a live id is atomic: while it runs, and so for every
\* operation of another caller that falls between its steps, the id is a
\* live record or a tombstone of the pair.
DeleteIsAtomic ==
    \A p \in Procs :
        (loc[p].op = "delete" /\ pc[p] # "idle")
          => loc[p].id \in DOMAIN records[loc[p].pair]
                             \cup DOMAIN deleted[loc[p].pair]

\* The callers whose last call is a completed update of an id of a pair.
Updaters(pair, id) ==
    {p \in Procs : /\ pc[p] = "idle"
                   /\ res[p].op = "update" /\ res[p].status = "ok"
                   /\ res[p].pair = pair /\ res[p].id = id}

\* C28: once the concurrent updates of one id have completed, the record
\* stored for the id, which get returns, carries the greatest modified value
\* issued to any of them.
LastUpdateHasHighestStamp ==
    (\A p \in Procs : pc[p] = "idle")
      => \A pair \in Pairs : \A id \in DOMAIN records[pair] :
            \A p \in Updaters(pair, id) :
                res[p].rec[1].last_modified
                  <= records[pair][id].last_modified

\* The caller is inside the retry loop of _bump_timestamp.
InBump(p) == pc[p] \in {"bump_watch", "bump_get", "bump_exec"}

\* C29: every _bump_timestamp call ends by installing a stamp and going on
\* to the write of its caller, whatever conflicts it meets on the way, and
\* no call ever ends with the watch conflict as its outcome.
BumpTerminates ==
    /\ \A p \in Procs : InBump(p) ~> pc[p] \in {"write", "tombstone"}
    /\ [](\A p \in Procs : res[p].status # "WatchError")

\* A caller's EXEC was refused and the loop has started over.
BumpRetried == \E p \in Procs : pc[p] = "bump_watch" /\ loc[p].dirty

\* The caller's delete of the id got the record: it is between its steps,
\* or it has returned the tombstone.
DeleteSucceeded(p, pair, id) ==
    \/ /\ pc[p] # "idle" /\ loc[p].op = "delete"
       /\ loc[p].pair = pair /\ loc[p].id = id
    \/ /\ pc[p] = "idle" /\ res[p].op = "delete" /\ res[p].status = "ok"
       /\ res[p].pair = pair /\ res[p].id = id

\* The caller's delete of the id has raised RecordNotFoundError.
DeleteRefused(p, pair, id) ==
    /\ pc[p] = "idle" /\ res[p].op = "delete"
    /\ res[p].status = "RecordNotFoundError"
    /\ res[p].pair = pair /\ res[p].id = id

\* C30: of two callers deleting one live id, only one gets the record and
\* returns the tombstone, the other raises RecordNotFoundError, and the
\* tombstone returned is the one tombstone the id has afterwards.
OneDeleteWins ==
    \A pair \in Pairs : \A id \in Ids :
        /\ \A p \in Procs : \A q \in Procs \ {p} :
              ~(DeleteSucceeded(p, pair, id) /\ DeleteSucceeded(q, pair, id))
        /\ \A p \in Procs :
              (pc[p] = "idle" /\ DeleteSucceeded(p, pair, id))
                => /\ id \in DOMAIN deleted[pair]
                   /\ id \notin DOMAIN records[pair]
                   /\ res[p].rec = <<deleted[pair][id]>>

\* One caller's delete of an id is between its steps, and the other
\* caller's delete of the id, made meanwhile, was refused.
DeleteMetDelete ==
    \E p \in Procs : \E q \in Procs \ {p} : \E pair \in Pairs : \E id \in Ids :
        /\ pc[p] # "idle" /\ DeleteSucceeded(p, pair, id)
        /\ DeleteRefused(q, pair, id)

\* The reference evaluation of a condition on the number of a record: the
\* values are compared as numbers.
NumCondition(x, c) ==
    \/ c.op = "gt" /\ x.number > c.num
    \/ c.op = "lt" /\ x.number < c.num
    \/ c.op = "min" /\ x.number >= c.num
    \/ c.op = "max" /\ x.number <= c.num

NumFiltered(stored, q) ==
    {x \in stored : \A i \in 1..Len(q.filters) : NumCondition(x, q.filters[i])}

NumPaginated(stored, q) ==
    {x \in NumFiltered(stored, q) :
        \/ q.rules = <<>>
        \/ \E i \in 1..Len(q.rules) :
              \A k \in 1..Len(q.rules[i]) : NumCondition(x, q.rules[i][k])}

\* The list is in the order of the numbers, in the direction asked for.
NumInOrder(list, sorting) ==
    \A i, j \in 1..Len(list) :
        i < j => IF sorting[1].direction > 0
                 THEN list[i].number <= list[j].number
                 ELSE list[i].number >= list[j].number

\* C31: on records whose content field holds integers, get_all of the
\* relational adapter with a comparison on the field as filter or pagination
\* rule, and with either direction of sorting on it, returns the rows, the
\* order and the count of the evaluation that compares the values as
\* numbers.
NumbersComparedAsNumbers ==
    [][PgGetAllStep
         => LET q == pgRes'.query
                stored == {PgRecord(r) : r \in PgOf(pgRecords, pgRes'.pair)}
            IN  /\ pgRes'.status = "ok"
                /\ pgRes'.rows = NumPaginated(stored, q)
                /\ pgRes'.count = Cardinality(NumFiltered(stored, q))
                /\ q.sorting # <<>>
                     => /\ Len(pgRes'.list) = Cardinality(pgRes'.rows)
                        /\ NumInOrder(pgRes'.list, q.sorting)
      ]_vars

\* The same for filters alone, without sorting.
NumFiltersAsNumbers ==
    [][(PgGetAllStep /\ pgRes'.query.rules = <<>>
          /\ pgRes'.query.sorting = <<>>)
         => LET q == pgRes'.query
                stored == {PgRecord(r) : r \in PgOf(pgRecords, pgRes'.pair)}
            IN  /\ pgRes'.rows = NumPaginated(stored, q)
                /\ pgRes'.count = Cardinality(NumFiltered(stored, q))
      ]_vars

\* The same for sorting alone.
NumSortedAsNumbers ==
    [][(PgGetAllStep /\ pgRes'.query.rules = <<>>
          /\ pgRes'.query.filters = <<>> /\ pgRes'.query.sorting # <<>>)
         => NumInOrder(pgRes'.list, pgRes'.query.sorting)
      ]_vars

\* A step in which an operation of the relational adapter met a failing
\* backend.
PgFailStep == pgLeft' < pgLeft /\ pgRes'.backend \notin {"none", "answers"}

\* C32: in the relational adapter a connectivity failure under an operation
\* reaches the caller as the service-unavailable error, any other error of
\* the backend as itself, and in both cases the tables are those of before
\* the operation: nothing it wrote is committed.
FailuresSurfaceAndRollBack ==
    [][(PgFailStep /\ pgRes'.op # "ping")
         => /\ pgRes'.backend \in {"connect OperationalError",
                                   "execute OperationalError"}
                 => pgRes'.status = "HTTPServiceUnavailable"
            /\ pgRes'.backend = "execute Error"
                 => pgRes'.status = "psycopg2.Error"
            /\ pgRecords' = pgRecords
            /\ pgDeleted' = pgDeleted
      ]_vars

\* A delete of a live id has failed on a lost connection, and the record
\* is still there, without a tombstone.
FailedDeleteKeptRecord ==
    /\ pgRes.op = "delete" /\ pgRes.status = "HTTPServiceUnavailable"
    /\ pgRes.backend = "execute OperationalError"
    /\ PgById(pgRecords, pgRes.id) # {}
    /\ PgById(pgDeleted, pgRes.id) = {}

\* The records a caller's MGET finds under the ids it has read.
ValuesFound(p) ==
    {records[loc[p].pair][i] :
       i \in loc[p].ids \cap DOMAIN records[loc[p].pair]}

\* The MGET of a caller's get_all meets an id without record value.
MgetMeetsMissing(p) ==
    /\ pc[p] = "ga_mget" /\ pc'[p] # "ga_mget"
    /\ loc[p].ids \ DOMAIN records[loc[p].pair] # {}

\* C33: get_all of the key-value adapter does not raise when an id of the
\* id set it has read has no record value, as when a delete removed it
\* between the two reads: the id is skipped and the other records are
\* returned.
MissingValuesSkipped ==
    /\ [][\A p \in Procs :
             MgetMeetsMissing(p)
               => IF loc[p].query.include_deleted
                  THEN loc'[p].rows = ValuesFound(p)
                  ELSE /\ res'[p].status = "ok"
                       /\ res'[p].rows = ValuesFound(p)]_vars
    /\ [](\A p \in Procs :
             (res[p].op = "get_all" /\ res[p].skipped # {})
               => res[p].status = "ok")

\* The same for get_all without include_deleted.
MissingRecordValuesSkipped ==
    /\ [][\A p \in Procs :
             (MgetMeetsMissing(p) /\ ~loc[p].query.include_deleted)
               => /\ res'[p].status = "ok"
                  /\ res'[p].rows = ValuesFound(p)]_vars
    /\ [](\A p \in Procs :
             (/\ res[p].op = "get_all" /\ res[p].skipped # {}
              /\ ~res[p].query.include_deleted)
               => res[p].status = "ok")

\* A get_all without include_deleted has skipped an id and returned.
SkippedAndReturned ==
    \E p \in Procs :
        /\ res[p].op = "get_all" /\ res[p].skipped # {}
        /\ ~res[p].query.include_deleted /\ res[p].status = "ok"

\* No two of the rows have one id.
DistinctIds(rows) == \A x \in rows : \A y \in rows : x.id = y.id => x = y

\* C34: get_all with include_deleted never returns two rows with one id, a
\* live record and a tombstone, whatever creates, updates and deletes came
\* before it or run beside it.
NoIdTwice ==
    /\ \A p \in Procs :
          (res[p].op = "get_all" /\ res[p].status = "ok"
             /\ res[p].query.include_deleted)
            => DistinctIds(res[p].rows)
    /\ (pgRes.op = "get_all" /\ pgRes.status = "ok"
          /\ pgRes.query.include_deleted)
         => DistinctIds(pgRes.rows)
====
